---- MODULE Spec2Model ----
(***************************************************************************)
(* neptune-clone.py: one run of main(neptune, cluster_id) against the      *)
(* control-plane client.  The client is the environment: every call is     *)
(* appended to the log `calls`, and what the client answers is chosen      *)
(* nondeterministically among the answers the service can give.            *)
(*                                                                         *)
(* A string is a sequence of tokens, so that + is \o.                      *)
(***************************************************************************)
EXTENDS Naturals, Sequences, FiniteSets

VARIABLES
    cluster_id,              \* main's argument (sys.argv[1])
    pc,                      \* the function main is about to call, "done" or "failed"
    error,                   \* the uncaught exception that ended the run, or "none"
    calls,                   \* the calls issued to the client so far, in order
    response,                \* the client's answer to the last call
    cluster_writer_id,       \* main's locals
    subnet_group_name,
    vpc_security_group_ids,
    security_groups,
    clone_cluster_id,
    clone_instance_id,
    num_attempts             \* the running waiter's count of polls

vars == <<cluster_id, pc, error, calls, response, cluster_writer_id,
          subnet_group_name, vpc_security_group_ids, security_groups,
          clone_cluster_id, clone_instance_id, num_attempts>>

locals == <<cluster_writer_id, subnet_group_name, vpc_security_group_ids,
            security_groups, clone_cluster_id, clone_instance_id>>

----------------------------------------------------------------------------
(* Bounds of the explored inputs *)

MaxMembers == 3
MaxVpcGroups == 2
MaxDbGroups == 1
\* The waiters' maxAttempts.  main passes MAX_ATTEMPTS = 200 to both; the
\* runs are explored with a smaller budget of polls.
MaxAttempts == 3

(* main's constants *)
DB_INST_CLASS == <<"db.r5.4xlarge">>

None == <<>>

----------------------------------------------------------------------------
(* What the service can answer *)

ClusterIds == {<<"abc">>, <<"Abc">>}
InstanceIds == {<<"abc-writer">>, <<"abc-reader">>}
Statuses == {"available", "creating", "failed", "deleting"}
SubnetGroupNames == {<<"sn1">>, <<"sn2">>}
VpcSecurityGroupIds == {<<"sg-1">>, <<"sg-2">>}
VpcSecurityGroupStatuses == {"active", "inactive"}
DBSecurityGroupNames == {<<"default">>}

SeqsUpTo(S, n) == UNION {[1..k -> S] : k \in 0..n}

Members == [DBInstanceIdentifier : InstanceIds, IsClusterWriter : BOOLEAN]
VpcSecurityGroups == [VpcSecurityGroupId : VpcSecurityGroupIds,
                      Status : VpcSecurityGroupStatuses]
DBSecurityGroups == [DBSecurityGroupName : DBSecurityGroupNames,
                     Status : {"active"}]

ErrorResponse == [kind |-> "Error"]

\* describe_db_clusters, as get_cluster_writer_id reads it
DescribeDBClustersResponses ==
    [kind : {"DBClusters"}, Status : Statuses,
     DBClusterMembers : SeqsUpTo(Members, MaxMembers)]

\* describe_db_instances, as get_db_instance_props reads it
DescribeDBInstancesResponses ==
    [kind : {"DBInstances"}, DBInstanceStatus : Statuses,
     DBSubnetGroupName : SubnetGroupNames,
     VpcSecurityGroups : SeqsUpTo(VpcSecurityGroups, MaxVpcGroups),
     DBSecurityGroups : SeqsUpTo(DBSecurityGroups, MaxDbGroups)]

\* The service stores identifiers in lower case: the identifier of an answer
\* is the requested one, as given or lowered.
LowerToken(t) == IF t = "Abc" THEN "abc" ELSE t
Lower(s) == [i \in 1..Len(s) |-> LowerToken(s[i])]
ServiceIds(requested) == {requested, Lower(requested)}

\* restore_db_cluster_to_point_in_time, as clone_cluster reads it
RestoreResponses(requested) ==
    [kind : {"DBCluster"}, Status : Statuses,
     DBClusterIdentifier : ServiceIds(requested)]

\* create_db_instance, as create_db_instance reads it
CreateResponses(requested) ==
    [kind : {"DBInstance"}, DBInstanceStatus : Statuses,
     DBInstanceIdentifier : ServiceIds(requested)]

\* What a waiter reads of a describe: the status at its path
WaiterResponses == [kind : {"Waiter"}, status : Statuses]

----------------------------------------------------------------------------
(* Pure functions *)

\* Mutant: the instance id is derived with another suffix
gen_instance_id_suffix(id) == id \o <<"-inst">>

gen_instance_id(id) == id \o <<"-instance">>

\* Mutant: the clone is given the id of its source
gen_cluster_id_same(id) == id

gen_cluster_id(id) == id \o <<"-clone">>

\* Mutant: the loop returns the member it is at without reading its flag
ScanMembers_noflag(members, i) ==
    IF i > Len(members) THEN None
    ELSE members[i].DBInstanceIdentifier

\* The for loop of get_cluster_writer_id from member i on: the first member
\* flagged writer, or None when the loop falls through to the raise.
RECURSIVE ScanMembers(_, _)
ScanMembers(members, i) ==
    IF i > Len(members) THEN None
    ELSE IF members[i].IsClusterWriter THEN members[i].DBInstanceIdentifier
    ELSE ScanMembers(members, i + 1)

\* Mutant: the comprehension without its condition
ActiveVpcSecurityGroupIds_all(groups) ==
    [i \in 1..Len(groups) |-> groups[i].VpcSecurityGroupId]

\* The list comprehension of get_db_instance_props
RECURSIVE ActiveVpcSecurityGroupIds(_)
ActiveVpcSecurityGroupIds(groups) ==
    IF groups = <<>> THEN <<>>
    ELSE LET it == Head(groups)
             rest == ActiveVpcSecurityGroupIds(Tail(groups))
         IN IF it.Status = "active" THEN <<it.VpcSecurityGroupId>> \o rest
            ELSE rest

\* The assertions on a status
ClusterAvailable(status) == status = "available"

\* Mutant: the assertion only rejects an instance that is going away
InstanceAvailable_notdeleting(status) == status # "deleting"

InstanceAvailable(status) == status = "available"

\* Mutant: the assertion only rejects a restore that failed
CloneCreating_notfailed(status) == status # "failed"

CloneCreating(status) == status = "creating"

InstanceCreating(status) == status = "creating"

\* Mutant: the acceptor also takes a resource that stopped being created
AcceptorMatches_settled(status) == status \in {"available", "failed"}

\* The waiter's one acceptor: success when the path equals 'available'
AcceptorMatches(status) == status = "available"

\* Mutant: the budget is compared with > and allows one poll more
WaiterState_offbyone(status, n, maxAttempts) ==
    IF AcceptorMatches(status) THEN "success"
    ELSE IF n > maxAttempts THEN "timeout"
    ELSE "waiting"

\* One round of waiter.wait after its n-th poll answered `status`: the
\* acceptor decides success; with no acceptor matched the wait raises once n
\* polls reached maxAttempts, and sleeps `delay` before the next poll
\* otherwise.  No acceptor names a failure state, so no status fails the wait.
WaiterState(status, n, maxAttempts) ==
    IF AcceptorMatches(status) THEN "success"
    ELSE IF n >= maxAttempts THEN "timeout"
    ELSE "waiting"

\* Mutant: main creates the instance without waiting for the cluster
MainNext_nowait(step) ==
    CASE step = "get_cluster_writer_id" -> "get_db_instance_props"
      [] step = "get_db_instance_props" -> "clone_cluster"
      [] step = "clone_cluster" -> "create_db_instance"
      [] step = "wait_cluster_available" -> "create_db_instance"
      [] step = "create_db_instance" -> "wait_db_instance_available"
      [] step = "wait_db_instance_available" -> "delete_db_cluster"
      [] step = "delete_db_cluster" -> "done"

\* main's sequence: the step that follows the successful return of `step`
MainNext(step) ==
    CASE step = "get_cluster_writer_id" -> "get_db_instance_props"
      [] step = "get_db_instance_props" -> "clone_cluster"
      [] step = "clone_cluster" -> "wait_cluster_available"
      [] step = "wait_cluster_available" -> "create_db_instance"
      [] step = "create_db_instance" -> "wait_db_instance_available"
      [] step = "wait_db_instance_available" -> "delete_db_cluster"
      [] step = "delete_db_cluster" -> "done"

----------------------------------------------------------------------------
(* The run *)

Init ==
    /\ cluster_id \in ClusterIds
    /\ pc = "get_cluster_writer_id"
    /\ error = "none"
    /\ calls = <<>>
    /\ response = [kind |-> "None"]
    /\ cluster_writer_id = None
    /\ subnet_group_name = None
    /\ vpc_security_group_ids = None
    /\ security_groups = None
    /\ clone_cluster_id = None
    /\ clone_instance_id = None
    /\ num_attempts = 0

\* Mutant: an exception raised once the clone exists is followed by its deletion
Raise_cleanup(e) ==
    /\ pc' = IF clone_cluster_id # None /\ pc # "delete_db_cluster"
             THEN "delete_db_cluster" ELSE "failed"
    /\ error' = e

\* An uncaught exception ends the run
Raise(e) == pc' = "failed" /\ error' = e

Return == pc' = MainNext(pc) /\ error' = error

GetClusterWriterId ==
    /\ pc = "get_cluster_writer_id"
    /\ calls' = Append(calls, [op |-> "describe_db_clusters",
                               DBClusterIdentifier |-> cluster_id])
    /\ \E r \in DescribeDBClustersResponses \cup {ErrorResponse} :
        /\ response' = r
        /\ IF r.kind = "Error"
           THEN Raise("ClientError") /\ UNCHANGED cluster_writer_id
           ELSE IF ~ClusterAvailable(r.Status)
           THEN Raise("AssertionError") /\ UNCHANGED cluster_writer_id
           ELSE IF ScanMembers(r.DBClusterMembers, 1) = None
           THEN Raise("Exception") /\ UNCHANGED cluster_writer_id
           ELSE Return /\ cluster_writer_id' = ScanMembers(r.DBClusterMembers, 1)
    /\ UNCHANGED <<cluster_id, subnet_group_name, vpc_security_group_ids,
                   security_groups, clone_cluster_id, clone_instance_id,
                   num_attempts>>

GetDbInstanceProps ==
    /\ pc = "get_db_instance_props"
    /\ calls' = Append(calls, [op |-> "describe_db_instances",
                               DBInstanceIdentifier |-> cluster_writer_id])
    /\ \E r \in DescribeDBInstancesResponses \cup {ErrorResponse} :
        /\ response' = r
        /\ IF r.kind = "Error"
           THEN /\ Raise("ClientError")
                /\ UNCHANGED <<subnet_group_name, vpc_security_group_ids,
                               security_groups>>
           ELSE IF ~InstanceAvailable(r.DBInstanceStatus)
           THEN /\ Raise("AssertionError")
                /\ UNCHANGED <<subnet_group_name, vpc_security_group_ids,
                               security_groups>>
           ELSE /\ Return
                /\ subnet_group_name' = r.DBSubnetGroupName
                /\ vpc_security_group_ids' =
                       ActiveVpcSecurityGroupIds(r.VpcSecurityGroups)
                /\ security_groups' = r.DBSecurityGroups
    /\ UNCHANGED <<cluster_id, cluster_writer_id, clone_cluster_id,
                   clone_instance_id, num_attempts>>

CloneCluster ==
    /\ pc = "clone_cluster"
    /\ calls' = Append(calls, [op |-> "restore_db_cluster_to_point_in_time",
                               SourceDBClusterIdentifier |-> cluster_id,
                               DBClusterIdentifier |-> gen_cluster_id(cluster_id),
                               RestoreType |-> "copy-on-write",
                               UseLatestRestorableTime |-> TRUE,
                               DBSubnetGroupName |-> subnet_group_name,
                               VpcSecurityGroupIds |-> vpc_security_group_ids])
    /\ \E r \in RestoreResponses(gen_cluster_id(cluster_id)) \cup {ErrorResponse} :
        /\ response' = r
        /\ IF r.kind = "Error"
           THEN Raise("ClientError") /\ UNCHANGED clone_cluster_id
           ELSE IF ~CloneCreating(r.Status)
           THEN Raise("AssertionError") /\ UNCHANGED clone_cluster_id
           ELSE Return /\ clone_cluster_id' = r.DBClusterIdentifier
    /\ num_attempts' = 0        \* the waiter main creates next counts from 0
    /\ UNCHANGED <<cluster_id, cluster_writer_id, subnet_group_name,
                   vpc_security_group_ids, security_groups, clone_instance_id>>

\* One round of waiter.wait: a poll, then success, the timeout or the sleep.
\* An error answer matches no acceptor and ends the wait with a WaiterError.
WaitClusterAvailable ==
    /\ pc = "wait_cluster_available"
    /\ calls' = Append(calls, [op |-> "describe_db_clusters",
                               DBClusterIdentifier |-> clone_cluster_id])
    /\ num_attempts' = num_attempts + 1
    /\ \E r \in WaiterResponses \cup {ErrorResponse} :
        /\ response' = r
        /\ IF r.kind = "Error"
           THEN Raise("WaiterError: error response")
           ELSE CASE WaiterState(r.status, num_attempts', MaxAttempts) = "success"
                       -> Return
                  [] WaiterState(r.status, num_attempts', MaxAttempts) = "timeout"
                       -> Raise("WaiterError: max attempts exceeded")
                  [] OTHER -> UNCHANGED <<pc, error>>
    /\ UNCHANGED <<cluster_id, locals>>

CreateDbInstance ==
    /\ pc = "create_db_instance"
    /\ calls' = Append(calls, [op |-> "create_db_instance",
                               DBClusterIdentifier |-> clone_cluster_id,
                               Engine |-> "neptune",
                               DBInstanceIdentifier |-> gen_instance_id(clone_cluster_id),
                               DBInstanceClass |-> DB_INST_CLASS,
                               DBSecurityGroups |-> security_groups])
    /\ \E r \in CreateResponses(gen_instance_id(clone_cluster_id)) \cup {ErrorResponse} :
        /\ response' = r
        /\ IF r.kind = "Error"
           THEN Raise("ClientError") /\ UNCHANGED clone_instance_id
           ELSE IF ~InstanceCreating(r.DBInstanceStatus)
           THEN Raise("AssertionError") /\ UNCHANGED clone_instance_id
           ELSE Return /\ clone_instance_id' = r.DBInstanceIdentifier
    /\ num_attempts' = 0
    /\ UNCHANGED <<cluster_id, cluster_writer_id, subnet_group_name,
                   vpc_security_group_ids, security_groups, clone_cluster_id>>

WaitDbInstanceAvailable ==
    /\ pc = "wait_db_instance_available"
    /\ calls' = Append(calls, [op |-> "describe_db_instances",
                               DBInstanceIdentifier |-> clone_instance_id])
    /\ num_attempts' = num_attempts + 1
    /\ \E r \in WaiterResponses \cup {ErrorResponse} :
        /\ response' = r
        /\ IF r.kind = "Error"
           THEN Raise("WaiterError: error response")
           ELSE CASE WaiterState(r.status, num_attempts', MaxAttempts) = "success"
                       -> Return
                  [] WaiterState(r.status, num_attempts', MaxAttempts) = "timeout"
                       -> Raise("WaiterError: max attempts exceeded")
                  [] OTHER -> UNCHANGED <<pc, error>>
    /\ UNCHANGED <<cluster_id, locals>>

DeleteDbCluster ==
    /\ pc = "delete_db_cluster"
    /\ calls' = Append(calls, [op |-> "delete_db_cluster",
                               DBClusterIdentifier |-> clone_cluster_id,
                               SkipFinalSnapshot |-> TRUE])
    /\ \E r \in {[kind |-> "Deleted"], ErrorResponse} :
        /\ response' = r
        /\ IF r.kind = "Error" THEN Raise("ClientError") ELSE Return
    /\ UNCHANGED <<cluster_id, locals, num_attempts>>

Next ==
    \/ GetClusterWriterId
    \/ GetDbInstanceProps
    \/ CloneCluster
    \/ WaitClusterAvailable
    \/ CreateDbInstance
    \/ WaitDbInstanceAvailable
    \/ DeleteDbCluster

Spec == Init /\ [][Next]_vars

----------------------------------------------------------------------------
(* The log of calls *)

RESTORE == "restore_db_cluster_to_point_in_time"

LastCall == calls[Len(calls)]

CallsTo(op) == {i \in 1..Len(calls) : calls[i].op = op}

\* The polls of the two waiters: the describes after the two of the resolution
ClusterPolls == {i \in CallsTo("describe_db_clusters") : i > 1}
InstancePolls == {i \in CallsTo("describe_db_instances") : i > 2}

Failed(e) == pc = "failed" /\ error = e

----------------------------------------------------------------------------
\* C1: a run in which every check passes issues describe-cluster(source),
\* describe-instance(writer), restore, one or more describe-cluster(clone),
\* create-instance, one or more describe-instance(clone instance) and
\* delete-cluster(clone, skip final snapshot), in this order and nothing else:
\* delete-cluster is the last call.
C1_CallOrder ==
    pc = "done" =>
        \E k \in 1..Len(calls), m \in 1..Len(calls) :
            /\ Len(calls) = 5 + k + m
            /\ calls[1] = [op |-> "describe_db_clusters",
                           DBClusterIdentifier |-> cluster_id]
            /\ calls[2] = [op |-> "describe_db_instances",
                           DBInstanceIdentifier |-> cluster_writer_id]
            /\ calls[3].op = RESTORE
            /\ \A i \in 4..(3 + k) :
                   calls[i] = [op |-> "describe_db_clusters",
                               DBClusterIdentifier |-> clone_cluster_id]
            /\ calls[4 + k].op = "create_db_instance"
            /\ \A i \in (5 + k)..(4 + k + m) :
                   calls[i] = [op |-> "describe_db_instances",
                               DBInstanceIdentifier |-> clone_instance_id]
            /\ calls[5 + k + m] = [op |-> "delete_db_cluster",
                                   DBClusterIdentifier |-> clone_cluster_id,
                                   SkipFinalSnapshot |-> TRUE]

\* A complete run in which both waits polled more than once
C1_Witness ==
    /\ pc = "done"
    /\ Cardinality(ClusterPolls) > 1
    /\ Cardinality(InstancePolls) > 1

----------------------------------------------------------------------------
\* C2: when the restore call answers a status other than 'creating' the run
\* fails there, and no call at all (no poll of the clone, no create-instance,
\* no delete-cluster) is issued after it.
RestoreNotCreating ==
    /\ Len(calls) = 3
    /\ response.kind = "DBCluster"
    /\ response.Status # "creating"

C2_RestoreAbort ==
    [][ /\ RestoreNotCreating' => Failed("AssertionError")'
        /\ RestoreNotCreating => calls' = calls ]_vars

C2_Witness ==
    /\ RestoreNotCreating
    /\ response.Status = "failed"
    /\ Failed("AssertionError")
    /\ LastCall.op = RESTORE

----------------------------------------------------------------------------
\* C3: a wait whose polls used the whole budget and never saw 'available'
\* fails with the timeout error, and no call follows: no create-instance and
\* no delete-cluster after a cluster wait, no delete-cluster after an
\* instance wait.
BudgetExhausted(polls) ==
    /\ polls # {}
    /\ Len(calls) \in polls
    /\ Cardinality(polls) = MaxAttempts
    /\ response.kind = "Waiter"
    /\ response.status # "available"

C3_Timeout ==
    [][ /\ (BudgetExhausted(ClusterPolls) \/ BudgetExhausted(InstancePolls))'
            => Failed("WaiterError: max attempts exceeded")'
        /\ BudgetExhausted(ClusterPolls)'
            => (CallsTo("create_db_instance") = {}
                /\ CallsTo("delete_db_cluster") = {})'
        /\ BudgetExhausted(InstancePolls)' => (CallsTo("delete_db_cluster") = {})'
        /\ (BudgetExhausted(ClusterPolls) \/ BudgetExhausted(InstancePolls))
            => calls' = calls ]_vars

\* The instance wait timed out on a status that never was 'available'
C3_Witness ==
    /\ BudgetExhausted(InstancePolls)
    /\ response.status = "creating"
    /\ Failed("WaiterError: max attempts exceeded")

----------------------------------------------------------------------------
\* C4: when the source cluster, or its writer instance, is not 'available'
\* the run fails at that describe with the assertion and issues no further
\* call: no mutating call, and in the cluster case no describe-instance.
SourceClusterNotAvailable ==
    /\ Len(calls) = 1
    /\ response.kind = "DBClusters"
    /\ response.Status # "available"

WriterNotAvailable ==
    /\ Len(calls) = 2
    /\ response.kind = "DBInstances"
    /\ response.DBInstanceStatus # "available"

C4_Precondition ==
    [][ /\ (SourceClusterNotAvailable \/ WriterNotAvailable)'
            => Failed("AssertionError")'
        /\ (SourceClusterNotAvailable \/ WriterNotAvailable)
            => calls' = calls ]_vars

C4_Witness ==
    /\ WriterNotAvailable
    /\ response.DBInstanceStatus = "deleting"
    /\ Failed("AssertionError")
    /\ \A i \in 1..Len(calls) : calls[i].op \in {"describe_db_clusters",
                                                  "describe_db_instances"}

----------------------------------------------------------------------------
\* C5: delete-cluster is issued exactly when the wait on the clone instance
\* succeeded: it is only issued as the call that follows a poll of the clone
\* instance that answered 'available', it is issued then, and a run that
\* failed earlier (timeout of a wait, create-instance error or status other
\* than 'creating') never issues it.
InstanceWaitSucceeded ==
    /\ Len(calls) \in InstancePolls
    /\ response.kind = "Waiter"
    /\ response.status = "available"

CreateFailed ==
    /\ LastCall.op = "create_db_instance"
    /\ \/ response.kind = "Error"
       \/ response.kind = "DBInstance" /\ response.DBInstanceStatus # "creating"

C5_NoCompensation ==
    [][ /\ (Len(calls) > 0 /\ CreateFailed)' => (pc = "failed")'
        /\ (pc = "failed" /\ LastCall.op # "delete_db_cluster")'
            => (CallsTo("delete_db_cluster") = {})'
        /\ (calls' # calls /\ LastCall'.op = "delete_db_cluster")
            => InstanceWaitSucceeded
        /\ (Len(calls) > 0 /\ InstanceWaitSucceeded)
            => (calls' # calls /\ LastCall'.op = "delete_db_cluster")
        /\ (Len(calls) > 0 /\ ~InstanceWaitSucceeded)'
            => (pc # "delete_db_cluster")' ]_vars

\* create-instance answered 'failed' after the clone cluster became available
C5_Witness ==
    /\ Len(calls) > 0
    /\ CreateFailed
    /\ response.kind = "DBInstance"
    /\ ClusterPolls # {}
    /\ pc = "failed"
    /\ CallsTo("delete_db_cluster") = {}

----------------------------------------------------------------------------
\* C6: for an available cluster with exactly one member flagged writer,
\* get_cluster_writer_id returns that member's id wherever it stands in the
\* list; with no member flagged writer (the empty list too) it raises and
\* returns no id.
Writers(members) == {i \in 1..Len(members) : members[i].IsClusterWriter}

AvailableClusterDescribed ==
    /\ Len(calls) = 1
    /\ response.kind = "DBClusters"
    /\ response.Status = "available"

C6_Writer ==
    AvailableClusterDescribed =>
        LET members == response.DBClusterMembers IN
        /\ Cardinality(Writers(members)) = 1 =>
              /\ pc = "get_db_instance_props"
              /\ \A i \in Writers(members) :
                     cluster_writer_id = members[i].DBInstanceIdentifier
        /\ Writers(members) = {} =>
              /\ Failed("Exception")
              /\ cluster_writer_id = None

\* The one writer is the last of three members
C6_Witness ==
    /\ AvailableClusterDescribed
    /\ Len(response.DBClusterMembers) = 3
    /\ Writers(response.DBClusterMembers) = {3}
    /\ cluster_writer_id = response.DBClusterMembers[3].DBInstanceIdentifier
    /\ cluster_writer_id # response.DBClusterMembers[1].DBInstanceIdentifier

----------------------------------------------------------------------------
\* C7: for an available instance get_db_instance_props returns the ids of
\* the VPC associations whose status is 'active', in their order, and the
\* classic groups as they are; restore receives that list of ids and the
\* subnet group name, create-instance receives the classic groups.
IsActive(group) == group.Status = "active"

IdsOfActive(groups) ==
    LET active == SelectSeq(groups, IsActive)
    IN [i \in 1..Len(active) |-> active[i].VpcSecurityGroupId]

AvailableInstanceDescribed ==
    /\ Len(calls) = 2
    /\ response.kind = "DBInstances"
    /\ response.DBInstanceStatus = "available"

C7_Props ==
    [][ /\ AvailableInstanceDescribed' =>
              /\ vpc_security_group_ids' = IdsOfActive(response'.VpcSecurityGroups)
              /\ security_groups' = response'.DBSecurityGroups
              /\ subnet_group_name' = response'.DBSubnetGroupName
        /\ (AvailableInstanceDescribed /\ calls' # calls) =>
              /\ LastCall'.op = RESTORE
              /\ LastCall'.VpcSecurityGroupIds = IdsOfActive(response.VpcSecurityGroups)
              /\ LastCall'.DBSubnetGroupName = response.DBSubnetGroupName
        /\ Len(calls) >= 2 => security_groups' = security_groups
        /\ \A i \in CallsTo("create_db_instance")' :
              calls'[i].DBSecurityGroups = security_groups' ]_vars

\* An inactive association before an active one, a classic group, and the
\* create-instance call issued
C7_Witness ==
    /\ CallsTo("create_db_instance") # {}
    /\ calls[3].VpcSecurityGroupIds = <<<<"sg-2">>>>
    /\ calls[3].DBSubnetGroupName = <<"sn2">>
    /\ security_groups # <<>>
    /\ LastCall.DBSecurityGroups = security_groups

----------------------------------------------------------------------------
\* C8 as stated: the clone cluster is source + '-clone' and the clone
\* instance source + '-clone-instance' in every call of the run.
CloneName == cluster_id \o <<"-clone">>
CloneInstanceName == cluster_id \o <<"-clone">> \o <<"-instance">>

C8_Original ==
    /\ \A i \in CallsTo(RESTORE) : calls[i].DBClusterIdentifier = CloneName
    /\ \A i \in ClusterPolls : calls[i].DBClusterIdentifier = CloneName
    /\ \A i \in CallsTo("create_db_instance") :
          /\ calls[i].DBClusterIdentifier = CloneName
          /\ calls[i].DBInstanceIdentifier = CloneInstanceName
    /\ \A i \in InstancePolls : calls[i].DBInstanceIdentifier = CloneInstanceName
    /\ \A i \in CallsTo("delete_db_cluster") :
          calls[i].DBClusterIdentifier = CloneName

\* C8 amended: restore targets source + '-clone'; the cluster polls, the
\* cluster argument of create-instance and delete-cluster use the identifier
\* the restore answered; create-instance asks for that identifier +
\* '-instance' and the instance polls use the identifier create-instance
\* answered; these are source + '-clone' and source + '-clone-instance'
\* whenever the service answers the identifiers it was asked for.
RestoreAnswered ==
    /\ Len(calls) = 3
    /\ response.kind = "DBCluster"
    /\ response.Status = "creating"

CreateAnswered ==
    /\ Len(calls) > 0
    /\ LastCall.op = "create_db_instance"
    /\ response.kind = "DBInstance"
    /\ response.DBInstanceStatus = "creating"

C8_Naming ==
    /\ \A i \in CallsTo(RESTORE) :
          /\ calls[i].SourceDBClusterIdentifier = cluster_id
          /\ calls[i].DBClusterIdentifier = CloneName
    /\ RestoreAnswered => clone_cluster_id = response.DBClusterIdentifier
    /\ CreateAnswered => clone_instance_id = response.DBInstanceIdentifier
    /\ \A i \in ClusterPolls : calls[i].DBClusterIdentifier = clone_cluster_id
    /\ \A i \in CallsTo("create_db_instance") :
          /\ calls[i].DBClusterIdentifier = clone_cluster_id
          /\ calls[i].DBInstanceIdentifier = clone_cluster_id \o <<"-instance">>
    /\ \A i \in InstancePolls : calls[i].DBInstanceIdentifier = clone_instance_id
    /\ \A i \in CallsTo("delete_db_cluster") :
          calls[i].DBClusterIdentifier = clone_cluster_id
    /\ (clone_cluster_id = CloneName
        /\ clone_instance_id \in {None, CloneInstanceName}) => C8_Original

\* A complete run in which the service answered the clone's id in lower case
C8_Witness ==
    /\ pc = "done"
    /\ cluster_id = <<"Abc">>
    /\ clone_cluster_id = <<"abc", "-clone">>
    /\ clone_instance_id = <<"abc", "-clone", "-instance">>

----------------------------------------------------------------------------
\* C9: a wait issues at least one and at most maxAttempts polls; a poll that
\* answers 'available' ends it in success at once; a poll that answers any
\* other status is followed by another poll while the budget allows and by
\* the timeout error when it does not; so a wait never goes on past
\* maxAttempts polls.
Waiting == pc \in {"wait_cluster_available", "wait_db_instance_available"}

PollsOfWait == IF pc = "wait_cluster_available" THEN ClusterPolls ELSE InstancePolls

C9_Wait ==
    [][ /\ Cardinality(ClusterPolls)' <= MaxAttempts
        /\ Cardinality(InstancePolls)' <= MaxAttempts
        /\ Waiting' => Cardinality(PollsOfWait)' < MaxAttempts
        /\ CallsTo("create_db_instance")' # {} => ClusterPolls' # {}
        /\ CallsTo("delete_db_cluster")' # {} => InstancePolls' # {}
        /\ Waiting =>
              /\ calls' # calls
              /\ Len(calls') = Len(calls) + 1
              /\ LastCall'.op = IF pc = "wait_cluster_available"
                                THEN "describe_db_clusters"
                                ELSE "describe_db_instances"
              /\ response'.kind = "Waiter" =>
                    IF response'.status = "available"
                    THEN pc' = MainNext(pc) /\ error' = "none"
                    ELSE IF Cardinality(PollsOfWait) + 1 < MaxAttempts
                    THEN pc' = pc /\ error' = "none"
                    ELSE Failed("WaiterError: max attempts exceeded")' ]_vars

\* The cluster wait goes on after a poll that answered 'failed'
C9_Witness ==
    /\ pc = "wait_cluster_available"
    /\ Cardinality(ClusterPolls) = 2
    /\ response.kind = "Waiter"
    /\ response.status = "failed"

----------------------------------------------------------------------------
\* C10: each of restore, create-instance and delete-cluster is issued at
\* most once, and the source cluster is named only by the first
\* describe-cluster and as the source of the restore: it is never the target
\* of the restore or of delete-cluster, nor the cluster of create-instance,
\* nor polled.
C10_SourceUntouched ==
    /\ Cardinality(CallsTo(RESTORE)) <= 1
    /\ Cardinality(CallsTo("create_db_instance")) <= 1
    /\ Cardinality(CallsTo("delete_db_cluster")) <= 1
    /\ \A i \in CallsTo(RESTORE) : calls[i].DBClusterIdentifier # cluster_id
    /\ \A i \in CallsTo("create_db_instance") :
          /\ calls[i].DBClusterIdentifier # cluster_id
          /\ calls[i].DBInstanceIdentifier # cluster_id
    /\ \A i \in CallsTo("delete_db_cluster") :
          calls[i].DBClusterIdentifier # cluster_id
    /\ \A i \in ClusterPolls : calls[i].DBClusterIdentifier # cluster_id

\* The run deleted the clone: all three mutating calls were issued
C10_Witness ==
    /\ CallsTo(RESTORE) # {}
    /\ CallsTo("create_db_instance") # {}
    /\ CallsTo("delete_db_cluster") # {}
    /\ LastCall.DBClusterIdentifier = clone_cluster_id
    /\ clone_cluster_id # cluster_id

====
